---- MODULE Spec2Model ----
(***************************************************************************)
(* 2bttns admin application.                                               *)
(*                                                                         *)
(*   SpecScores : the getPlayerScores query (games router), one request    *)
(*                against a data store, step by step (authorization        *)
(*                guard, three store lookups, output shaping).             *)
(*   SpecFilter : the free-text and tag filter of GameObjectsTable, its    *)
(*                listing and count requests.                              *)
(*   SpecEdit   : inline editing in GameObjectsTable: CustomEditable       *)
(*                cells, the tag picker, handleUpdateGameObject and the    *)
(*                updateById mutation.                                     *)
(*   SpecPage   : pagination of GameObjectsTable: the page count, page     *)
(*                changes and the page-index correction effect.            *)
(*                                                                         *)
(* Texts (ids, names, descriptions of game objects shown in the table) are *)
(* sequences of characters; tag, game and player ids are opaque strings.   *)
(***************************************************************************)
EXTENDS Integers, Sequences, FiniteSets, TLC

VARIABLES
    \* ---- data store (Prisma models) ----
    tagTable,          \* Tag rows: tag id -> [inputToGames : set of game ids]
    gameObjectTable,   \* GameObject rows: set of [id, name, description, createdAt, updatedAt, tags]
    playerScoreTable,  \* PlayerScore rows: set of [playerId, gameObjectId, score, createdAt, updatedAt]
    \* ---- one getPlayerScores request ----
    authData,          \* ctx.authData: [type, userId]
    rawInput,          \* the input as sent: [game_id, player_id, include_game_objects (a JS value)]
    input,             \* the input after zod parsing
    pc,                \* position in the query handler
    gameTags,          \* result of tag.findMany
    gameObjects,       \* result of gameObject.findMany
    playerScores,      \* result of playerScore.findMany (ordered)
    response,          \* what the procedure returns: NoResponse, or [playerScores |-> <<...>>]
    error,             \* the TRPCError code thrown, or "none"
    storeLookups,      \* the Prisma models queried so far, in order
    \* ---- GameObjectsTable component ----
    tag,                        \* props.tag: a tag id, or NoTagFilter
    globalFilter,               \* the free-text filter
    pagination,                 \* [pageIndex, pageSize]
    effectDeps,                 \* [pageCount, pageIndex] the correction effect last ran with
    gameObjectsQueryData,       \* gameObjectsQuery.data, with the request it answers
    gameObjectsCountQueryData,  \* gameObjectsCountQuery.data, with the request it answers
    stale,                      \* the gameObjects queries are invalidated and not yet refetched
    liveValue,                  \* CustomEditable state of the cells of the shown row: field -> text
    mutation,                   \* the updateById call in flight, with the cell it came from
    lastAlert                   \* the message of the last window.alert, or "none"

scoreVars == <<tagTable, gameObjectTable, playerScoreTable, authData, rawInput, input, pc,
               gameTags, gameObjects, playerScores, response, error, storeLookups>>

tableVars == <<tag, globalFilter, pagination, effectDeps, gameObjectsQueryData, gameObjectsCountQueryData,
               stale, liveValue, mutation, lastAlert>>

vars == <<scoreVars, tableVars>>

(***************************************************************************)
(* Universes                                                               *)
(***************************************************************************)
TagIds == {"t1", "t2"}
GameIds == {"g1", "g2"}
PlayerIds == {"p1", "p2"}
ScoredGameObjectIds == {"go1", "go2"}

\* Stored scores are decimals 0..MaxScore (Prisma Decimal), counted in units of
\* half the spacing of JS numbers: a decimal holds one more digit than a number.
MaxScore == 2

NoScore == MaxScore + 1
NoResponse == [playerScores |-> <<"none">>]

(***************************************************************************)
(* JS values of the include_game_objects input                             *)
(***************************************************************************)
JsUndefined == <<"undefined">>
JsString(s) == <<"string", s>>
JsBoolean(b) == <<"boolean", IF b THEN "true" ELSE "false">>

RawIncludeValues ==
    {JsUndefined, JsString("true"), JsString("false"), JsBoolean(TRUE), JsBoolean(FALSE)}

\* (value) => value === "true"
PreprocessInclude(value) == value = JsString("true")

\* z.preprocess(..., z.boolean()).default(false): an undefined input is replaced
\* by the default before the inner (preprocessing) schema runs.
ParseIncludeGameObjects(value) ==
    LET data == IF value = JsUndefined THEN JsBoolean(FALSE) ELSE value
    IN  PreprocessInclude(data)

ParseInput(raw) ==
    [game_id |-> raw.game_id,
     player_id |-> raw.player_id,
     include_game_objects |-> ParseIncludeGameObjects(raw.include_game_objects)]

(***************************************************************************)
(* Output shaping                                                          *)
(***************************************************************************)
\* Decimal.toNumber(): the nearest JS number. Only even counts are JS numbers;
\* an odd count lies half way between two and rounds to the even neighbour.
ToNumber(d) ==
    IF d % 2 = 0 THEN d
    ELSE LET q == d \div 2 IN IF q % 2 = 0 THEN 2 * q ELSE 2 * (q + 1)

\* Date.toISOString()
ToISOString(date) == <<"iso", date>>

OutputGameObject(go) ==
    [id |-> go.id, name |-> go.name, description |-> go.description,
     createdAt |-> ToISOString(go.createdAt), updatedAt |-> ToISOString(go.updatedAt)]

\* The mapper of playerScores.map(...): gameObject is undefined (absent from
\* the response) unless the fetched row embeds one.
OutputEntry(playerScore) ==
    LET base == [playerId |-> playerScore.playerId,
                 gameObjectId |-> playerScore.gameObjectId,
                 score |-> ToNumber(playerScore.score),
                 createdAt |-> ToISOString(playerScore.createdAt),
                 updatedAt |-> ToISOString(playerScore.updatedAt)]
    IN  IF "gameObject" \in DOMAIN playerScore
        THEN base @@ [gameObject |-> OutputGameObject(playerScore.gameObject)]
        ELSE base

MapOutput(rows) == [i \in 1..Len(rows) |-> OutputEntry(rows[i])]

(***************************************************************************)
(* Prisma queries of getPlayerScores                                       *)
(***************************************************************************)
\* where: { x: { in: list } } -- an empty list matches no row.
InFilterEmptyMatchesAll(value, list) == list = {} \/ value \in list
InFilter(value, list) == value \in list

\* tag.findMany({ where: { inputToGames: { some: { id: game_id } } } })
TagFindManyAll(game_id) == DOMAIN tagTable
TagFindMany(game_id) == {t \in DOMAIN tagTable : game_id \in tagTable[t].inputToGames}

\* gameObject.findMany({ where: { tags: { some: { id: { in: tagIds } } } } })
GameObjectFindMany(tagIds) ==
    {go \in gameObjectTable : \E t \in go.tags : InFilter(t, tagIds)}

\* orderBy: { score: "desc" }
OrderByScoreAsc(rows) == \A i \in 1..(Len(rows) - 1) : rows[i].score <= rows[i + 1].score
OrderByScoreDesc(rows) == \A i \in 1..(Len(rows) - 1) : rows[i].score >= rows[i + 1].score

\* All the ways of listing the elements of S, each once.
Orderings(S) == {f \in [1..Cardinality(S) -> S] : \A x \in S : \E i \in DOMAIN f : f[i] = x}

\* include: { gameObject: flag }
WithInclude(row, flag) ==
    IF flag
    THEN row @@ [gameObject |-> CHOOSE go \in gameObjectTable : go.id = row.gameObjectId]
    ELSE row

\* A buggy join: one result row per (score row, matching tag of its game object).
PlayerScoreFindManyPerTag(gameObjectIds, playerId, include) ==
    LET pairs == {<<r, t>> \in playerScoreTable \X gameTags :
                    /\ r.playerId = playerId
                    /\ \E go \in gameObjects : go.id = r.gameObjectId /\ t \in go.tags}
    IN  {[i \in DOMAIN f |-> WithInclude(f[i][1], include)] : f \in
            {g \in Orderings(pairs) : OrderByScoreDesc([i \in DOMAIN g |-> g[i][1]])}}

\* playerScore.findMany({ where: { gameObjectId: { in: ids }, playerId },
\*                        include: { gameObject }, orderBy: { score: "desc" } })
\* The possible results: the matching rows, each once, best score first; the
\* store decides the order among equal scores.
PlayerScoreFindMany(gameObjectIds, playerId, include) ==
    LET rows == {r \in playerScoreTable :
                    InFilter(r.gameObjectId, gameObjectIds) /\ r.playerId = playerId}
    IN  {[i \in DOMAIN f |-> WithInclude(f[i], include)] : f \in
            {g \in Orderings(rows) : OrderByScoreDesc(g)}}

(***************************************************************************)
(* getPlayerScores, step by step                                           *)
(***************************************************************************)
AuthTypes == {"player_token", "api_key", "admin_session"}

\* The guard of the handler: a player token may only read its own scores.
IsAuthorizedAnyone(auth, in) == TRUE
IsAuthorizedSameUserOnly(auth, in) == auth.userId = in.player_id
IsAuthorized(auth, in) ==
    ~(auth.type = "player_token" /\ auth.userId # in.player_id)

storeVars == <<tagTable, gameObjectTable, playerScoreTable>>
requestVars == <<authData, rawInput>>

\* .input(...): zod parses the raw input, then the handler starts.
Validate ==
    /\ pc = "received"
    /\ UNCHANGED tableVars
    /\ input' = ParseInput(rawInput)
    /\ pc' = "authorize"
    /\ UNCHANGED <<storeVars, requestVars, gameTags, gameObjects, playerScores,
                   response, error, storeLookups>>

Authorize ==
    /\ pc = "authorize"
    /\ UNCHANGED tableVars
    /\ IF IsAuthorized(authData, input)
       THEN pc' = "findTags" /\ error' = error
       ELSE pc' = "failed" /\ error' = "UNAUTHORIZED"
    /\ UNCHANGED <<storeVars, requestVars, input, gameTags, gameObjects, playerScores,
                   response, storeLookups>>

FindGameTags ==
    /\ pc = "findTags"
    /\ UNCHANGED tableVars
    /\ gameTags' = TagFindMany(input.game_id)
    /\ storeLookups' = Append(storeLookups, "tag")
    /\ pc' = "findGameObjects"
    /\ UNCHANGED <<storeVars, requestVars, input, gameObjects, playerScores, response, error>>

FindGameObjects ==
    /\ pc = "findGameObjects"
    /\ UNCHANGED tableVars
    /\ gameObjects' = GameObjectFindMany(gameTags)
    /\ storeLookups' = Append(storeLookups, "gameObject")
    /\ pc' = "findPlayerScores"
    /\ UNCHANGED <<storeVars, requestVars, input, gameTags, playerScores, response, error>>

FindPlayerScores ==
    /\ pc = "findPlayerScores"
    /\ UNCHANGED tableVars
    /\ playerScores' \in PlayerScoreFindMany({go.id : go \in gameObjects},
                                             input.player_id, input.include_game_objects)
    /\ storeLookups' = Append(storeLookups, "playerScore")
    /\ pc' = "shape"
    /\ UNCHANGED <<storeVars, requestVars, input, gameTags, gameObjects, response, error>>

Respond ==
    /\ pc = "shape"
    /\ UNCHANGED tableVars
    /\ response' = [playerScores |-> MapOutput(playerScores)]
    /\ pc' = "done"
    /\ UNCHANGED <<storeVars, requestVars, input, gameTags, gameObjects, playerScores,
                   error, storeLookups>>

NextScores == Validate \/ Authorize \/ FindGameTags \/ FindGameObjects
                \/ FindPlayerScores \/ Respond

(***************************************************************************)
(* GameObjectsTable: texts, requests, and the gameObjects router           *)
(***************************************************************************)
Chars == {"a", "b"}
MaxLen == 2

\* The texts of at most n characters.
Texts(n) == UNION {[1..k -> Chars] : k \in 0..n}

Null == <<"null">>
NoTagFilter == "none"
NoData == [loaded |-> FALSE]
\* The correction effect has not run yet (the component is mounting).
NoDeps == [mounted |-> FALSE]
PageSize == 10

\* Prisma { contains: text }: text occurs in s as a substring.
Contains(s, text) ==
    \E i \in 0..(Len(s) - Len(text)) : SubSeq(s, i + 1, i + Len(text)) = text

\* The filter argument of both requests: a non-empty globalFilter is matched
\* against the fields named here, under mode OR.
FilterArg ==
    IF globalFilter # <<>>
    THEN [mode |-> "OR",
          id |-> [contains |-> globalFilter],
          name |-> [contains |-> globalFilter],
          tag |-> tag]
    ELSE [tag |-> tag]

\* The input of api.gameObjects.getAll.useQuery (sort is left undefined)
GetAllArgs ==
    [includeTags |-> TRUE,
     skip |-> pagination.pageIndex * pagination.pageSize,
     take |-> pagination.pageSize,
     filter |-> FilterArg]

\* The input of api.gameObjects.getCount.useQuery
GetCountArgs == [filter |-> FilterArg]

TextFields == {"id", "name", "description"}

\* gameObjects.getAll / getCount where-clause: the text conditions of the
\* filter combined by its mode, and the exact-match tag condition.
FilterMatches(go, filter) ==
    LET fields == TextFields \cap DOMAIN filter
        hit(f) == go[f] # Null /\ Contains(go[f], filter[f].contains)
        textOK == \/ fields = {}
                  \/ IF filter.mode = "OR" THEN \E f \in fields : hit(f)
                                           ELSE \A f \in fields : hit(f)
        tagOK == filter.tag = NoTagFilter \/ filter.tag \in go.tags
    IN  textOK /\ tagOK

Selected(filter) == {go \in gameObjectTable : FilterMatches(go, filter)}

Min(a, b) == IF a < b THEN a ELSE b
Max(a, b) == IF a > b THEN a ELSE b

\* gameObjects.getAll: the possible pages (the selected rows after skip, at
\* most take of them; no sort is requested, so the store picks the order).
GetAll(args) ==
    LET rows == Selected(args.filter)
        n == Min(args.take, Max(0, Cardinality(rows) - args.skip))
    IN  {page \in SUBSET rows : Cardinality(page) = n}

\* gameObjects.getCount
GetCount(args) == Cardinality(Selected(args.filter))

(***************************************************************************)
(* Filtering (SpecFilter)                                                  *)
(***************************************************************************)
editVars == <<stale, liveValue, mutation, lastAlert>>

\* SearchAndCreateBar onChange={setGlobalFilter}
SetGlobalFilter ==
    /\ \E text \in Texts(MaxLen) : globalFilter' = text
    /\ globalFilter' # globalFilter
    /\ UNCHANGED <<scoreVars, tag, pagination, effectDeps, gameObjectsQueryData,
                   gameObjectsCountQueryData, editVars>>

\* gameObjectsQuery fetches for the current filter and page.
FetchGameObjects ==
    /\ \E page \in GetAll(GetAllArgs) :
          gameObjectsQueryData' =
              [loaded |-> TRUE, globalFilter |-> globalFilter, args |-> GetAllArgs,
               gameObjects |-> page]
    /\ gameObjectsQueryData' # gameObjectsQueryData
    /\ UNCHANGED <<scoreVars, tag, globalFilter, pagination, effectDeps,
                   gameObjectsCountQueryData, editVars>>

\* gameObjectsCountQuery fetches for the current filter.
FetchCount ==
    /\ gameObjectsCountQueryData' =
          [loaded |-> TRUE, globalFilter |-> globalFilter, args |-> GetCountArgs,
           count |-> GetCount(GetCountArgs)]
    /\ gameObjectsCountQueryData' # gameObjectsCountQueryData
    /\ UNCHANGED <<scoreVars, tag, globalFilter, pagination, effectDeps, gameObjectsQueryData,
                   editVars>>

NextFilter == SetGlobalFilter \/ FetchGameObjects \/ FetchCount

(***************************************************************************)
(* Pagination (SpecPage)                                                   *)
(***************************************************************************)
\* The largest page index a page change asks for.
MaxPageIndex == 2
\* The largest number of game objects in the store.
MaxObjects == 11

\* Math.ceil(a / b), for a >= 0 and b > 0
Ceil(a, b) == (a + b - 1) \div b

\* const pageCount = useMemo(...): 0 until the count query has data
PageCount ==
    IF ~ gameObjectsCountQueryData.loaded THEN 0
    ELSE Ceil(gameObjectsCountQueryData.count, pagination.pageSize)

\* The dependency array [pageCount, pageIndex] of the correction effect
Deps == [mounted |-> TRUE, pageCount |-> PageCount, pageIndex |-> pagination.pageIndex]

\* The correction effect without its pageCount === 0 guard
CorrectedPageIndexUnguarded(pageIndex, pageCount) ==
    IF pageIndex >= pageCount THEN pageCount - 1
    ELSE IF pageIndex < 0 THEN 0
    ELSE pageIndex
\* The body of the correction effect: the pageIndex its setPagination call
\* sets, or the pageIndex as it is when it makes no call.
CorrectedPageIndex(pageIndex, pageCount) ==
    IF pageIndex >= pageCount THEN pageCount - 1
    ELSE IF pageCount = 0 THEN pageIndex
    ELSE IF pageIndex < 0 THEN 0
    ELSE pageIndex

\* The page indexes a page change of the pagination controls asks for.
PageChoices == 0..MaxPageIndex

pageFrame == <<scoreVars, tag, globalFilter, gameObjectsQueryData, gameObjectsCountQueryData,
               editVars>>

\* PaginatedTable onPaginationChange={setPagination}
SetPageIndex ==
    /\ \E i \in PageChoices :
          /\ i # pagination.pageIndex
          /\ pagination' = [pagination EXCEPT !.pageIndex = i]
    /\ UNCHANGED <<pageFrame, effectDeps>>

\* useEffect(..., [pageCount, pageIndex]): runs after mount and after every
\* render in which pageCount or pageIndex changed.
CorrectPageIndex ==
    /\ effectDeps # Deps
    /\ effectDeps' = Deps
    /\ pagination' = [pagination EXCEPT
                         !.pageIndex = CorrectedPageIndex(pagination.pageIndex, PageCount)]
    /\ UNCHANGED pageFrame

\* The correction effect has run for the current pageCount and pageIndex.
EffectSettled == effectDeps = Deps

\* React flushes the pending effects of a render before it handles the next
\* event or response, so these wait for the correction effect.
FilterChange == EffectSettled /\ SetGlobalFilter
CountArrives == EffectSettled /\ FetchCount
PageChange == EffectSettled /\ SetPageIndex

NextPage == FilterChange \/ CountArrives \/ PageChange \/ CorrectPageIndex

(***************************************************************************)
(* Inline editing (SpecEdit)                                               *)
(***************************************************************************)
Fields == {"id", "name", "description"}
EditTexts == {<<"a">>, <<"b">>}

NoMutation == [status |-> "idle"]

\* The table row whose cells are modelled: the one row of the listing.
ShownRow == CHOOSE go \in gameObjectsQueryData.gameObjects : TRUE

\* value={info.getValue()} / value={info.getValue() ?? ""}
CellValue(row, f) == IF row[f] = Null THEN <<>> ELSE row[f]
ValueProp(f) == CellValue(ShownRow, f)

\* TagMultiSelect onChange: the selection with one tag added or removed.
TagMultiSelectChoices(selected) ==
    {selected \cup {t} : t \in TagIds \ selected} \cup {selected \ {t} : t \in selected}

\* tags: { connect: tags?.map(...) } -- as a replacement of the tag set
SetTags(current, data) ==
    IF "tags" \in DOMAIN data THEN data.tags ELSE current
\* tags: { connect: input.data.tags?.map((tag) => ({ id: tag })) }
ConnectTags(current, data) ==
    IF "tags" \in DOMAIN data THEN current \cup data.tags ELSE current

\* prisma.gameObject.update throws: no row with the id, the new id is taken
\* by another row, or a tag to connect does not exist.
UpdateThrows(in) ==
    \/ ~ \E go \in gameObjectTable : go.id = in.id
    \/ "id" \in DOMAIN in.data /\ \E go \in gameObjectTable : go.id = in.data.id /\ go.id # in.id
    \/ "tags" \in DOMAIN in.data /\ ~ (in.data.tags \subseteq DOMAIN tagTable)

\* data: { id, name, description, tags: { connect } }: undefined fields are left alone.
UpdatedRow(go, data) ==
    [go EXCEPT !.id = IF "id" \in DOMAIN data THEN data.id ELSE @,
               !.name = IF "name" \in DOMAIN data THEN data.name ELSE @,
               !.description = IF "description" \in DOMAIN data THEN data.description ELSE @,
               !.tags = ConnectTags(@, data)]

UpdatedTable(in) ==
    {IF go.id = in.id THEN UpdatedRow(go, in.data) ELSE go : go \in gameObjectTable}

\* handleUpdateGameObject: the promise it returns. The try block and the catch
\* block both return normally; the catch does not rethrow.
HandleUpdateGameObjectPromise(status) ==
    CASE status = "ok" -> "fulfilled"
      [] status = "error" -> "fulfilled"

filterVars == <<tag, globalFilter, pagination, effectDeps, gameObjectsCountQueryData>>

\* Editable onChange: setLiveValue(updated)
CellChange ==
    /\ gameObjectsQueryData.loaded
    /\ \E f \in Fields, updated \in EditTexts :
          /\ liveValue[f] # updated
          /\ liveValue' = [liveValue EXCEPT ![f] = updated]
    /\ UNCHANGED <<scoreVars, filterVars, gameObjectsQueryData, stale, mutation, lastAlert>>

\* Editable onSubmit -> handleSubmit -> handleSave -> handleUpdateGameObject
\* -> mutateAsync({ id, data: { [field]: nextValue } })
CellSubmit ==
    /\ gameObjectsQueryData.loaded
    /\ mutation.status = "idle"
    /\ \E f \in Fields :
          mutation' = [status |-> "pending", id |-> ShownRow.id,
                       data |-> (f :> liveValue[f]), origin |-> f, value |-> ValueProp(f)]
    /\ UNCHANGED <<scoreVars, filterVars, gameObjectsQueryData, stale, liveValue, lastAlert>>

\* TagMultiSelect onChange -> handleUpdateGameObject(id, { tags: nextTags })
TagPickerChange ==
    /\ gameObjectsQueryData.loaded
    /\ mutation.status = "idle"
    /\ \E nextTags \in TagMultiSelectChoices(ShownRow.tags) :
          mutation' = [status |-> "pending", id |-> ShownRow.id,
                       data |-> [tags |-> nextTags], origin |-> "tags", value |-> <<>>]
    /\ UNCHANGED <<scoreVars, filterVars, gameObjectsQueryData, stale, liveValue, lastAlert>>

\* The updateById mutation on the server.
UpdateById ==
    /\ mutation.status = "pending"
    /\ IF UpdateThrows(mutation)
       THEN /\ mutation' = [mutation EXCEPT !.status = "error"]
            /\ UNCHANGED gameObjectTable
       ELSE /\ gameObjectTable' = UpdatedTable(mutation)
            /\ mutation' = [mutation EXCEPT !.status = "ok"]
    /\ UNCHANGED <<tagTable, playerScoreTable, authData, rawInput, input, pc, gameTags,
                   gameObjects, playerScores, response, error, storeLookups,
                   filterVars, gameObjectsQueryData, stale, liveValue, lastAlert>>

\* The request does not reach the server: mutateAsync rejects.
MutationRejects ==
    /\ mutation.status = "pending"
    /\ mutation' = [mutation EXCEPT !.status = "error"]
    /\ UNCHANGED <<scoreVars, filterVars, gameObjectsQueryData, stale, liveValue, lastAlert>>

\* The rest of handleUpdateGameObject once mutateAsync settles, and then the
\* .catch of handleSubmit on the promise handleSave returned.
HandleUpdateSettled ==
    /\ mutation.status \in {"ok", "error"}
    /\ stale' = (stale \/ mutation.status = "ok")
    /\ LET promise == HandleUpdateGameObjectPromise(mutation.status)
           reverted == mutation.origin \in Fields /\ promise = "rejected"
       IN  /\ liveValue' = IF reverted
                           THEN [liveValue EXCEPT ![mutation.origin] = mutation.value]
                           ELSE liveValue
           /\ lastAlert' = IF reverted THEN "Invalid Update -- Reverting to previous value"
                           ELSE IF mutation.status = "error" THEN "Error updating tag"
                           ELSE lastAlert
    /\ mutation' = NoMutation
    /\ UNCHANGED <<scoreVars, filterVars, gameObjectsQueryData>>

\* utils.gameObjects.invalidate(): the listing is fetched again; a cell whose
\* value prop changed runs useEffect(() => setLiveValue(value), [value]).
Refetch ==
    /\ stale
    /\ \E page \in GetAll(GetAllArgs) :
          /\ gameObjectsQueryData' =
                [loaded |-> TRUE, globalFilter |-> globalFilter, args |-> GetAllArgs,
                 gameObjects |-> page]
          /\ LET row == CHOOSE go \in page : TRUE
             IN  liveValue' = [f \in Fields |->
                                  IF CellValue(row, f) # ValueProp(f) THEN CellValue(row, f)
                                  ELSE liveValue[f]]
    /\ stale' = FALSE
    /\ UNCHANGED <<scoreVars, filterVars, mutation, lastAlert>>

NextEdit == CellChange \/ CellSubmit \/ TagPickerChange \/ UpdateById \/ MutationRejects
               \/ HandleUpdateSettled \/ Refetch

(***************************************************************************)
(* Initial states: a store and one request                                 *)
(***************************************************************************)
GameObjectRow(id, tags) ==
    [id |-> id, name |-> <<"a">>, description |-> <<"b">>,
     createdAt |-> 1, updatedAt |-> 2, tags |-> tags]

ScoreRows(scoreOf) ==
    {[playerId |-> k[1], gameObjectId |-> k[2], score |-> scoreOf[k],
      createdAt |-> 1, updatedAt |-> 2] : k \in {x \in DOMAIN scoreOf : scoreOf[x] # NoScore}}

Callers ==
    {[type |-> "player_token", userId |-> p] : p \in PlayerIds}
        \cup {[type |-> "api_key", userId |-> "key1"], [type |-> "admin_session", userId |-> "admin"]}

RequestStart ==
    /\ input = [game_id |-> "", player_id |-> "", include_game_objects |-> FALSE]
    /\ pc = "received"
    /\ gameTags = {}
    /\ gameObjects = {}
    /\ playerScores = <<>>
    /\ response = NoResponse
    /\ error = "none"
    /\ storeLookups = <<>>

\* Every store over the universes, queried by an unrestricted caller.
InitStores ==
    /\ tagTable \in [TagIds -> [inputToGames : SUBSET GameIds]]
    /\ \E tagsOf \in [ScoredGameObjectIds -> SUBSET TagIds] :
          gameObjectTable = {GameObjectRow(id, tagsOf[id]) : id \in ScoredGameObjectIds}
    /\ \E scoreOf \in [PlayerIds \X ScoredGameObjectIds -> 0..NoScore] :
          /\ \A id \in ScoredGameObjectIds : scoreOf[<<"p2", id>>] \in {NoScore, MaxScore}
          /\ playerScoreTable = ScoreRows(scoreOf)
    /\ authData = [type |-> "api_key", userId |-> "key1"]
    /\ rawInput \in [game_id : GameIds, player_id : PlayerIds,
                     include_game_objects : {JsUndefined, JsString("true")}]
    /\ RequestStart

\* Every caller and every input against the store of the worked example.
InitCallers ==
    /\ tagTable = [t \in TagIds |-> [inputToGames |-> IF t = "t1" THEN {"g1"} ELSE {}]]
    /\ gameObjectTable = {GameObjectRow("go1", {"t1"}), GameObjectRow("go2", {"t2"})}
    /\ playerScoreTable =
          ScoreRows([k \in PlayerIds \X ScoredGameObjectIds |->
                        IF k = <<"p1", "go1">> THEN 1 ELSE IF k = <<"p1", "go2">> THEN 2
                        ELSE IF k = <<"p2", "go1">> THEN 2 ELSE NoScore])
    /\ authData \in Callers
    /\ rawInput \in [game_id : GameIds, player_id : PlayerIds,
                     include_game_objects : RawIncludeValues]
    /\ RequestStart

\* The table component before it is used.
TableIdle ==
    /\ tag = NoTagFilter
    /\ globalFilter = <<>>
    /\ pagination = [pageIndex |-> 0, pageSize |-> PageSize]
    /\ effectDeps = NoDeps
    /\ gameObjectsQueryData = NoData
    /\ gameObjectsCountQueryData = NoData
    /\ stale = FALSE
    /\ liveValue = [f \in Fields |-> <<>>]
    /\ mutation = NoMutation
    /\ lastAlert = "none"

InitScores == (InitStores \/ InitCallers) /\ TableIdle

SpecScores == InitScores /\ [][NextScores]_vars

\* No getPlayerScores request.
ScoresIdle ==
    /\ tagTable = [t \in TagIds |-> [inputToGames |-> {}]]
    /\ playerScoreTable = {}
    /\ authData = [type |-> "admin_session", userId |-> "admin"]
    /\ rawInput = [game_id |-> "", player_id |-> "", include_game_objects |-> JsUndefined]
    /\ input = [game_id |-> "", player_id |-> "", include_game_objects |-> FALSE]
    /\ pc = "idle"
    /\ gameTags = {}
    /\ gameObjects = {}
    /\ playerScores = <<>>
    /\ response = NoResponse
    /\ error = "none"
    /\ storeLookups = <<>>

TableRow(id, name, description, tags) ==
    [id |-> id, name |-> name, description |-> description,
     createdAt |-> 1, updatedAt |-> 2, tags |-> tags]

\* A store of two game objects, one of them any row over the texts, and the
\* table mounted with or without a tag filter.
InitFilter ==
    /\ ScoresIdle
    /\ \E id \in Texts(MaxLen) \ {<<>>, <<"b">>}, name \in Texts(1) \ {<<>>},
          description \in Texts(MaxLen) \cup {Null}, tags \in SUBSET TagIds :
          gameObjectTable = {TableRow(id, name, description, tags),
                             TableRow(<<"b">>, <<"b">>, Null, {})}
    /\ tag \in {NoTagFilter, "t1"}
    /\ globalFilter = <<>>
    /\ pagination = [pageIndex |-> 0, pageSize |-> PageSize]
    /\ effectDeps = NoDeps
    /\ gameObjectsQueryData = NoData
    /\ gameObjectsCountQueryData = NoData
    /\ stale = FALSE
    /\ liveValue = [f \in Fields |-> <<>>]
    /\ mutation = NoMutation
    /\ lastAlert = "none"

SpecFilter == InitFilter /\ [][NextFilter]_vars

\* A store of one game object, listed in the table.
InitEdit ==
    /\ ScoresIdle
    /\ gameObjectTable = {TableRow(<<"a">>, <<"a">>, Null, {})}
    /\ tag = NoTagFilter
    /\ globalFilter = <<>>
    /\ pagination = [pageIndex |-> 0, pageSize |-> PageSize]
    /\ effectDeps = NoDeps
    /\ gameObjectsQueryData =
          [loaded |-> TRUE, globalFilter |-> <<>>, args |-> GetAllArgs,
           gameObjects |-> gameObjectTable]
    /\ gameObjectsCountQueryData = NoData
    /\ stale = FALSE
    /\ liveValue = [f \in Fields |-> CellValue(CHOOSE go \in gameObjectTable : TRUE, f)]
    /\ mutation = NoMutation
    /\ lastAlert = "none"

SpecEdit == InitEdit /\ [][NextEdit]_vars

\* The i-th game object of a store: its id is i times "a", and the first
\* three are named "b", the others "a".
PagedRow(i) ==
    TableRow([k \in 1..i |-> "a"], IF i <= 3 THEN <<"b">> ELSE <<"a">>, Null, {})

\* The table mounting over a store of 0..MaxObjects game objects.
InitPage ==
    /\ ScoresIdle
    /\ \E n \in 0..MaxObjects : gameObjectTable = {PagedRow(i) : i \in 1..n}
    /\ TableIdle

\* React runs a pending effect: the correction effect is not postponed forever.
SpecPage == InitPage /\ [][NextPage]_vars /\ WF_vars(CorrectPageIndex)

(***************************************************************************)
(* Claims about getPlayerScores (SpecScores)                               *)
(***************************************************************************)
\* The caller holds a player token of another player than the one requested.
UnauthorizedCaller ==
    authData.type = "player_token" /\ authData.userId # rawInput.player_id

\* The score rows of player_id on game objects carrying a tag of game_id,
\* as one join over the store.
ExpectedScoreRows(game_id, player_id) ==
    {r \in playerScoreTable :
        /\ r.playerId = player_id
        /\ \E go \in gameObjectTable :
              /\ go.id = r.gameObjectId
              /\ \E t \in go.tags : game_id \in tagTable[t].inputToGames}

ScoreKey(e) == <<e.playerId, e.gameObjectId>>
Returned == response.playerScores
ReturnedKeys == {ScoreKey(Returned[i]) : i \in DOMAIN Returned}

\* C1: a player-token caller asking for another player's scores gets an
\* authorization error once the guard has run, before any store lookup, and
\* no score data is ever returned to it.
C1_UnauthorizedFailsBeforeLookup ==
    UnauthorizedCaller =>
        /\ pc \in {"received", "authorize", "failed"}
        /\ pc = "failed" => error = "UNAUTHORIZED"
        /\ storeLookups = <<>>
        /\ response = NoResponse

C1_Witness ==
    /\ UnauthorizedCaller
    /\ pc = "failed"
    /\ ExpectedScoreRows(rawInput.game_id, rawInput.player_id) # {}

\* C2: the returned score records are exactly the player's score rows whose
\* game object carries at least one tag associated with the game; rows of the
\* player on other game objects stay out.
C2_ExactlyTagIntersection ==
    pc = "done" =>
        {<<Returned[i].playerId, Returned[i].gameObjectId, Returned[i].score>> :
            i \in DOMAIN Returned}
        = {<<r.playerId, r.gameObjectId, ToNumber(r.score)>> :
            r \in ExpectedScoreRows(input.game_id, input.player_id)}

C2_Witness ==
    /\ pc = "done"
    /\ Len(Returned) >= 1
    /\ \E r \in playerScoreTable :
          r.playerId = input.player_id /\ ScoreKey(r) \notin ReturnedKeys

\* C3: a game with no associated tag yields an empty playerScores list,
\* whatever score rows the player has.
C3_NoTagsNoScores ==
    (pc = "done" /\ \A t \in DOMAIN tagTable : input.game_id \notin tagTable[t].inputToGames)
        => Returned = <<>>

C3_Witness ==
    /\ pc = "done"
    /\ \A t \in DOMAIN tagTable : input.game_id \notin tagTable[t].inputToGames
    /\ \E r \in playerScoreTable :
          /\ r.playerId = input.player_id
          /\ \E go \in gameObjectTable : go.id = r.gameObjectId /\ go.tags # {}
    /\ Returned = <<>>

\* C4: every qualifying score row of the player appears exactly once in the
\* result, however many tags its game object shares with the game.
C4_EachScoreOnce ==
    pc = "done" =>
        /\ \A r \in ExpectedScoreRows(input.game_id, input.player_id) :
              Cardinality({i \in DOMAIN Returned : ScoreKey(Returned[i]) = ScoreKey(r)}) = 1
        /\ \A i, j \in DOMAIN Returned :
              ScoreKey(Returned[i]) = ScoreKey(Returned[j]) => i = j

C4_Witness ==
    /\ pc = "done"
    /\ \E go \in gameObjects :
          /\ Cardinality(go.tags \cap gameTags) >= 2
          /\ <<input.player_id, go.id>> \in ReturnedKeys

\* The other case of C4: a game object of which only some tags belong to the game.
C4_PartialOverlapReached ==
    /\ pc = "done"
    /\ \E go \in gameObjects :
          /\ go.tags \cap gameTags # {}
          /\ go.tags \ gameTags # {}
          /\ <<input.player_id, go.id>> \in ReturnedKeys

\* C5: the returned list is ordered by score, best first, and the output
\* shaping keeps the order of the fetched rows.
C5_SortedDescending ==
    pc = "done" =>
        /\ \A i \in 1..(Len(Returned) - 1) : Returned[i].score >= Returned[i + 1].score
        /\ Len(Returned) = Len(playerScores)
        /\ \A i \in DOMAIN Returned : ScoreKey(Returned[i]) = ScoreKey(playerScores[i])

C5_Witness ==
    /\ pc = "done"
    /\ Len(Returned) = 2
    /\ Returned[1].score > Returned[2].score

\* C6: an authorization error is raised only for a player token whose userId
\* differs from player_id; never for another caller type or for the player's own id.
C6_ErrorOnlyForForeignPlayerToken ==
    (pc = "failed" \/ error # "none") => UnauthorizedCaller

C6_Witness ==
    /\ authData.type # "player_token"
    /\ authData.userId # input.player_id
    /\ pc = "done"
    /\ Len(Returned) >= 1

\* What the caller asked for: the value true, as a boolean or as the string.
AskedForTrue(value) == value \in {JsBoolean(TRUE), JsString("true")}

\* C7: the flag reaching the query is true exactly when the caller asked for
\* true; without it no returned entry carries a gameObject, with it every one does.
C7_FlagIsWhatCallerAsked ==
    /\ pc # "received" =>
          (input.include_game_objects <=> AskedForTrue(rawInput.include_game_objects))
    /\ pc = "done" =>
          \A i \in DOMAIN Returned :
              "gameObject" \in DOMAIN Returned[i]
                  <=> AskedForTrue(rawInput.include_game_objects)

(***************************************************************************)
(* Claims about GameObjectsTable (SpecFilter, SpecEdit)                    *)
(***************************************************************************)
\* The game objects of which text is a substring of the id, the name or the
\* description, and which carry the tag of the tag filter when there is one.
SelectedByAnyTextField(text, tagFilter) ==
    {go \in gameObjectTable :
        /\ tagFilter = NoTagFilter \/ tagFilter \in go.tags
        /\ \E f \in {"id", "name", "description"} : go[f] # Null /\ Contains(go[f], text)}

\* C8: with a non-empty free-text filter, the listing and the count select a
\* game object exactly when the text is a substring of its id, its name or
\* its description, and it passes the optional tag filter.
C8_FreeTextFilterOverThreeFields ==
    /\ (gameObjectsQueryData.loaded /\ gameObjectsQueryData.globalFilter # <<>>) =>
          gameObjectsQueryData.gameObjects
              = SelectedByAnyTextField(gameObjectsQueryData.globalFilter, tag)
    /\ (gameObjectsCountQueryData.loaded /\ gameObjectsCountQueryData.globalFilter # <<>>) =>
          gameObjectsCountQueryData.count
              = Cardinality(SelectedByAnyTextField(gameObjectsCountQueryData.globalFilter, tag))

\* C9: when the update mutation of a submitted cell edit fails, the cell shows
\* again the value it had before the edit, and an alert was raised.
C9_FailedSaveRevertsCell ==
    [][(mutation.status = "error" /\ mutation.origin \in Fields /\ mutation'.status = "idle")
          => /\ liveValue'[mutation.origin] = mutation.value
             /\ lastAlert' # "none"]_vars

\* The tags updateById was given, none when tags is omitted.
GivenTags(data) == IF "tags" \in DOMAIN data THEN data.tags ELSE {}

\* C10: a successful updateById leaves the game object with every tag it had
\* and every tag given, and with nothing else: no tag is detached, and
\* without a tag list the tags are unchanged.
C10_ConnectOnly ==
    [][(mutation.status = "pending" /\ mutation'.status = "ok") =>
          \A go \in gameObjectTable :
              go.id = mutation.id =>
                  \E after \in gameObjectTable' :
                      /\ after.id = (IF "id" \in DOMAIN mutation.data THEN mutation.data.id
                                     ELSE go.id)
                      /\ after.tags = go.tags \cup GivenTags(mutation.data)]_vars

\* A tag was deselected in the picker, the remaining tags were sent, and the
\* update succeeded: the stored tags are still those from before.
C10_Witness ==
    /\ mutation.status = "ok"
    /\ mutation.origin = "tags"
    /\ mutation.data.tags # ShownRow.tags
    /\ mutation.data.tags \subseteq ShownRow.tags
    /\ \E go \in gameObjectTable : go.id = mutation.id /\ go.tags = ShownRow.tags

(***************************************************************************)
(* Claims about the pagination of GameObjectsTable (SpecPage)              *)
(***************************************************************************)
\* C11: the correction effect reaches a fixed point: once it has called
\* setPagination, the page index it set needs no further correction for the
\* page count at hand (pageCount = 0 included), so it makes at most one
\* corrective call per change of pageCount or pageIndex; and it never loops:
\* it always comes to run without a call, for the values it last set.
C11_CorrectionReachesFixedPoint ==
    /\ [][(effectDeps' # effectDeps /\ pagination' # pagination) =>
             CorrectedPageIndex(pagination'.pageIndex, PageCount') = pagination'.pageIndex]_vars
    /\ []<>EffectSettled

\* The count is not loaded (pageCount = 0), the effect has corrected the
\* page index and has run again without a further call.
C11_Witness ==
    /\ ~ gameObjectsCountQueryData.loaded
    /\ EffectSettled
    /\ pagination.pageIndex # 0

\* C12: pageIndex is never negative, so the skip of the listing request is
\* never negative; and with pageCount > 0 and the effect settled, pageIndex
\* is at most pageCount - 1.
C12_PageIndexInRange ==
    /\ pagination.pageIndex >= 0
    /\ GetAllArgs.skip >= 0
    /\ (PageCount > 0 /\ EffectSettled) => pagination.pageIndex <= PageCount - 1

====
